---- MODULE Spec2Model ----
(***************************************************************************)
(* Model of office-wordcount (src/word_count): the Unicode character       *)
(* classes of patterns.py, the regex scans finditer/sub applied to them,   *)
(* and the four counting functions of counter.py.  A text is a sequence    *)
(* of Unicode code points (integers).                                      *)
(***************************************************************************)
EXTENDS Integers, Sequences, FiniteSets, TLC

(***************************************************************************)
(* Bounds of the model.                                                    *)
(***************************************************************************)
MaxLen == 3

\* Largest value of a field of an operand of Statistics addition.
MaxField == 1

\* Largest number of FILE arguments of one run of the command line.
MaxFiles == 2

\* Code points the input texts are drawn from; one or more of every class
\* the patterns distinguish:
\*   9 TAB, 10 LF, 11 VT, 12 FF, 13 CR, 32 SPACE, 133 NEL (U+0085),
\*   12288 IDEOGRAPHIC SPACE (U+3000), 97 "a", 19990 Han U+4E16,
\*   8232 LINE SEPARATOR (U+2028), 8233 PARAGRAPH SEPARATOR (U+2029),
\*   65279 BOM (U+FEFF), 8203 ZWSP (U+200B), 65024 VS1 (U+FE00),
\*   917760 VS17 (U+E0100).
Alphabet ==
    {9, 10, 11, 12, 13, 32, 133, 12288, 97, 19990, 8232, 8233,
     65279, 8203, 65024, 917760}

Texts == UNION {[1..n -> Alphabet] : n \in 0..MaxLen}

(***************************************************************************)
(* Unicode properties used by the patterns (Unicode Character Database).   *)
(* Zs, White_Space and the blocks are complete; a script is given by its   *)
(* principal ranges.                                                       *)
(***************************************************************************)
\* General_Category=Zs (space separators).
IsZs(c) ==
    \/ c \in {32, 160, 5760, 8239, 8287, 12288}
    \/ c \in 8192..8202                      \* U+2000..U+200A

\* \s of the regex library on str patterns: the White_Space property.
IsWhiteSpace(c) ==
    \/ c \in 9..13
    \/ c \in {32, 133, 160, 5760, 8232, 8233, 8239, 8287, 12288}
    \/ c \in 8192..8202

\* Script=Han
IsHan(c) ==
    \/ c \in 11904..11929 \/ c \in 11931..12019 \/ c \in 12032..12245
    \/ c \in {12293, 12295} \/ c \in 12321..12329 \/ c \in 12344..12347
    \/ c \in 13312..19903 \/ c \in 19968..40959
    \/ c \in 63744..64109 \/ c \in 64112..64217
    \/ c \in 131072..173791

\* Script=Hiragana
IsHiragana(c) ==
    \/ c \in 12353..12438 \/ c \in 12445..12447
    \/ c \in 110593..110879 \/ c = 127488

\* Script=Katakana
IsKatakana(c) ==
    \/ c \in 12449..12538 \/ c \in 12541..12543 \/ c \in 12784..12799
    \/ c \in 13008..13054 \/ c \in 13056..13143
    \/ c \in 65382..65391 \/ c \in 65393..65437 \/ c = 110592

\* Script=Hangul
IsHangul(c) ==
    \/ c \in 4352..4607 \/ c \in 12334..12335 \/ c \in 12593..12686
    \/ c \in 12800..12830 \/ c \in 12896..12926 \/ c \in 43360..43388
    \/ c \in 44032..55203 \/ c \in 55216..55238 \/ c \in 55243..55291
    \/ c \in 65440..65470 \/ c \in 65474..65479 \/ c \in 65482..65487
    \/ c \in 65490..65495 \/ c \in 65498..65500

\* Script=Bopomofo
IsBopomofo(c) ==
    \/ c \in 746..747 \/ c \in 12549..12591 \/ c \in 12704..12735

\* The Unicode blocks named in ASIAN_PATTERN.
IsAsianBlock(c) ==
    \/ c \in 65280..65519      \* Halfwidth_and_Fullwidth_Forms  FF00..FFEF
    \/ c \in 12288..12351      \* CJK_Symbols_and_Punctuation    3000..303F
    \/ c \in 12800..13055      \* Enclosed_CJK_Letters_and_Months 3200..32FF
    \/ c \in 13056..13311      \* CJK_Compatibility              3300..33FF
    \/ c \in 65072..65103      \* CJK_Compatibility_Forms        FE30..FE4F
    \/ c \in 65040..65055      \* Vertical_Forms                 FE10..FE1F
    \/ c \in 12032..12255      \* Kangxi_Radicals                2F00..2FDF
    \/ c \in 11904..12031      \* CJK_Radicals_Supplement        2E80..2EFF
    \/ c \in 94176..94207      \* Ideographic_Symbols_and_Punctuation
    \/ c \in 12784..12799      \* Katakana_Phonetic_Extensions   31F0..31FF

\* Membership in the character set spelled by ASIAN_PATTERN.
ASIAN_PATTERN(c) ==
    \/ IsHan(c) \/ IsHiragana(c) \/ IsKatakana(c) \/ IsHangul(c)
    \/ IsBopomofo(c)
    \/ IsAsianBlock(c)
    \/ c \in {12539, 12540}    \* U+30FB, U+30FC

(***************************************************************************)
(* The compiled patterns: the character class of each one, as a predicate  *)
(* on a code point.                                                        *)
(***************************************************************************)
\* [\p{Zs}\t\n\r\f\v]+
SPACES(c) == IsZs(c) \/ c \in {9, 10, 13, 12, 11}

\* [\r\n]+
BREAKS(c) == c \in {13, 10}

\* [BOM, ZWSP, VS1-VS16, VS17-VS256]+
CHAR_EXCLUDES(c) ==
    \/ c \in {65279, 8203}
    \/ c \in 65024..65039
    \/ c \in 917760..917999

\* [LINE SEPARATOR, PARAGRAPH SEPARATOR]
UNICODE_SEPARATORS(c) == c \in {8232, 8233}

\* [<ASIAN_PATTERN>]+
ASIANS(c) == ASIAN_PATTERN(c)

NON_ASIAN_WORDS_SkipMarks(c) ==
    ~ASIAN_PATTERN(c) /\ ~IsWhiteSpace(c) /\ ~CHAR_EXCLUDES(c)

\* [^<ASIAN_PATTERN>\s]+
NON_ASIAN_WORDS(c) == ~ASIAN_PATTERN(c) /\ ~IsWhiteSpace(c)

(***************************************************************************)
(* Regex operations.  A pattern is passed by its name; a match is its span *)
(* [start, end] (1-based, inclusive).                                      *)
(***************************************************************************)
\* The code point c is in the character class of the pattern.
InClass(pattern, c) ==
    CASE pattern = "SPACES" -> SPACES(c)
      [] pattern = "BREAKS" -> BREAKS(c)
      [] pattern = "CHAR_EXCLUDES" -> CHAR_EXCLUDES(c)
      [] pattern = "UNICODE_SEPARATORS" -> UNICODE_SEPARATORS(c)
      [] pattern = "ASIANS" -> ASIANS(c)
      [] pattern = "NON_ASIAN_WORDS" -> NON_ASIAN_WORDS(c)

\* Variant of Repeated in which only ASIANS carries the + quantifier.
Repeated_AsiansOnly(pattern) == pattern = "ASIANS"

\* The class of the pattern is repeated with + (all but UNICODE_SEPARATORS,
\* which matches one character at a time).
Repeated(pattern) == pattern # "UNICODE_SEPARATORS"

\* Last index of the greedy match that starts at i (s[i] is in the class).
MatchEnd(pattern, s, i) ==
    LET e[j \in i..Len(s)] ==
            IF Repeated(pattern) /\ j < Len(s) /\ InClass(pattern, s[j + 1])
            THEN e[j + 1]
            ELSE j
    IN  e[i]

\* pattern.finditer(s): the non-overlapping matches, scanning left to right.
finditer(pattern, s) ==
    LET scan[i \in 1..(Len(s) + 1)] ==
            IF i > Len(s) THEN << >>
            ELSE IF InClass(pattern, s[i])
                 THEN LET e == MatchEnd(pattern, s, i)
                      IN  <<[start |-> i, end |-> e]>> \o scan[e + 1]
                 ELSE scan[i + 1]
    IN  scan[1]

sub_FirstOnly(pattern, s) ==
    LET ms == finditer(pattern, s)
    IN  IF ms = << >> THEN s
        ELSE SubSeq(s, 1, ms[1].start - 1) \o SubSeq(s, ms[1].end + 1, Len(s))

\* pattern.sub("", s): s with every match deleted.
sub(pattern, s) ==
    LET scan[i \in 1..(Len(s) + 1)] ==
            IF i > Len(s) THEN << >>
            ELSE IF InClass(pattern, s[i])
                 THEN scan[MatchEnd(pattern, s, i) + 1]
                 ELSE <<s[i]>> \o scan[i + 1]
    IN  scan[1]

SumGroupLen_Runs(matches) == Len(matches)

\* sum(len(m.group()) for m in matches)
SumGroupLen(matches) ==
    LET acc[k \in 0..Len(matches)] ==
            IF k = 0 THEN 0
            ELSE acc[k - 1] + (matches[k].end - matches[k].start + 1)
    IN  acc[Len(matches)]

SumOnes_CountsEmpty(matches) == Len(matches) + 1

\* sum(1 for _ in matches)
SumOnes(matches) ==
    LET acc[k \in 0..Len(matches)] ==
            IF k = 0 THEN 0 ELSE acc[k - 1] + 1
    IN  acc[Len(matches)]

(***************************************************************************)
(* statistics.py                                                           *)
(***************************************************************************)
Statistics(w, cns, cws, naw, ac) ==
    [words |-> w,
     characters_no_space |-> cns,
     characters_with_space |-> cws,
     non_asian_words |-> naw,
     asian_characters |-> ac]

\* Statistics.__add__(self, other) with the non_asian_words of the sum
\* taken from other.asian_characters.
Statistics_add_Swapped(self, other) ==
    Statistics(self.words + other.words,
               self.characters_no_space + other.characters_no_space,
               self.characters_with_space + other.characters_with_space,
               self.non_asian_words + other.asian_characters,
               self.asian_characters + other.asian_characters)

\* Statistics.__add__(self, other)
Statistics_add(self, other) ==
    Statistics(self.words + other.words,
               self.characters_no_space + other.characters_no_space,
               self.characters_with_space + other.characters_with_space,
               self.non_asian_words + other.non_asian_words,
               self.asian_characters + other.asian_characters)

\* The all-zero record process_files starts its total from.
ZeroStatistics == Statistics(0, 0, 0, 0, 0)

(***************************************************************************)
(* counter.py                                                              *)
(***************************************************************************)
count_words_NoSeparators(t) ==
    LET asian_characters == SumGroupLen(finditer("ASIANS", t))
        non_asian_words == SumOnes(finditer("NON_ASIAN_WORDS", t))
    IN  non_asian_words + asian_characters

count_words(t) ==
    LET asian_characters == SumGroupLen(finditer("ASIANS", t))
        non_asian_words == SumOnes(finditer("NON_ASIAN_WORDS", t))
        separator_words == SumOnes(finditer("UNICODE_SEPARATORS", t))
    IN  non_asian_words + asian_characters + separator_words

count_characters_KeepMarks(t) ==
    LET stripped == sub("SPACES", t)
    IN  Len(stripped)

count_characters(t) ==
    LET stripped == sub("SPACES", t)
    IN  Len(sub("CHAR_EXCLUDES", stripped))

count_characters_with_space_KeepBreaks(t) ==
    Len(sub("CHAR_EXCLUDES", t))

count_characters_with_space(t) ==
    LET stripped == sub("BREAKS", t)
    IN  Len(sub("CHAR_EXCLUDES", stripped))

calculate_word_statistics_NoSeparators(t) ==
    LET asian_characters == SumGroupLen(finditer("ASIANS", t))
        non_asian_words == SumOnes(finditer("NON_ASIAN_WORDS", t))
    IN  Statistics(non_asian_words + asian_characters,
                   count_characters(t),
                   count_characters_with_space(t),
                   non_asian_words,
                   asian_characters)

calculate_word_statistics_AsianRuns(t) ==
    LET asian_characters == SumGroupLen(finditer("ASIANS", t))
        asian_runs == SumOnes(finditer("ASIANS", t))
        non_asian_words == SumOnes(finditer("NON_ASIAN_WORDS", t))
        separator_words == SumOnes(finditer("UNICODE_SEPARATORS", t))
    IN  Statistics(non_asian_words + asian_runs + separator_words,
                   count_characters(t),
                   count_characters_with_space(t),
                   non_asian_words,
                   asian_characters)

calculate_word_statistics(t) ==
    LET asian_characters == SumGroupLen(finditer("ASIANS", t))
        non_asian_words == SumOnes(finditer("NON_ASIAN_WORDS", t))
        separator_words == SumOnes(finditer("UNICODE_SEPARATORS", t))
    IN  Statistics(non_asian_words + asian_characters + separator_words,
                   count_characters(t),
                   count_characters_with_space(t),
                   non_asian_words,
                   asian_characters)

(***************************************************************************)
(* State of one call of one of the four public functions on a text.        *)
(*   text  the argument                                                    *)
(*   op    the function that has been called ("none" before the call)      *)
(*   ret   what it returned: [kind |-> "none"] before the call,            *)
(*         [kind |-> "Statistics", value |-> record] or                    *)
(*         [kind |-> "int", value |-> n] after it                          *)
(***************************************************************************)
VARIABLES text, op, ret

counterVars == <<text, op, ret>>

(***************************************************************************)
(* State of the evaluation of one expression over Statistics records.      *)
(*   recA, recB, recC  the operand records a, b, c                         *)
(*   expr     the expression that has been evaluated ("none" before)       *)
(*   lhs, rhs the two records the expression yields (NoRecord before)      *)
(*   raised   the exception the evaluation raised ("none" if none)         *)
(***************************************************************************)
VARIABLES recA, recB, recC, expr, lhs, rhs, raised

addVars == <<recA, recB, recC, expr, lhs, rhs, raised>>

(***************************************************************************)
(* State of one execution of run(args) (cli.py).                           *)
(*   args     the parsed arguments: files (the paths, in order), format,   *)
(*            total (--total) and value (the single-value flag, "none"     *)
(*            if none).  A path is written as its number; str(path) is     *)
(*            that number and the name "stdin" is 0.                       *)
(*   fs       what read_file finds at each path: a text or the error it    *)
(*            raises                                                       *)
(*   stdin    what read_stdin finds: a text or the error it raises         *)
(*   tty      is_interactive()                                             *)
(*   pc       "input" (reading), "output" (selecting and printing), "done" *)
(*   idx      index of the next path process_files reads                   *)
(*   opened   the paths read_file has been called with, in order           *)
(*   results, total   the locals of process_files / run                    *)
(*   stdout, stderr   what has been printed to each stream                 *)
(*   stderr_closed    sys.stderr.close() has been called                   *)
(*   status   the exit status run returned (meaningful when pc = "done")   *)
(*   exc      the exception run caught ("none" if none)                    *)
(***************************************************************************)
VARIABLES args, fs, stdin, tty, pc, idx, opened, results, total, stdout,
          stderr, stderr_closed, status, exc

cliVars == <<args, fs, stdin, tty, pc, idx, opened, results, total, stdout,
             stderr, stderr_closed, status, exc>>

vars == <<counterVars, addVars, cliVars>>

NoRecord == [none |-> TRUE]

\* Operand records: every field is 0 or MaxField.
Records ==
    {Statistics(w, cns, cws, naw, ac) :
        w \in {0, MaxField}, cns \in {0, MaxField}, cws \in {0, MaxField},
        naw \in {0, MaxField}, ac \in {0, MaxField}}

\* No function of counter.py is being called.
CounterIdle ==
    /\ text = << >>
    /\ op = "none"
    /\ ret = [kind |-> "none"]

\* No expression over records is being evaluated.
AddIdle ==
    /\ recA = ZeroStatistics
    /\ recB = ZeroStatistics
    /\ recC = ZeroStatistics
    /\ expr = "none"
    /\ lhs = NoRecord
    /\ rhs = NoRecord
    /\ raised = "none"

(***************************************************************************)
(* Spec: the four functions of counter.py, each called on every text.      *)
(***************************************************************************)
\* run is not being executed.
CliIdle ==
    /\ args = [files |-> << >>, format |-> "auto", total |-> FALSE,
               value |-> "none"]
    /\ fs = << >>
    /\ stdin = [kind |-> "text", text |-> << >>]
    /\ tty = FALSE
    /\ pc = "idle"
    /\ idx = 1
    /\ opened = << >>
    /\ results = << >>
    /\ total = ZeroStatistics
    /\ stdout = << >>
    /\ stderr = << >>
    /\ stderr_closed = FALSE
    /\ status = 0
    /\ exc = "none"

Init ==
    /\ text \in Texts
    /\ op = "none"
    /\ ret = [kind |-> "none"]
    /\ AddIdle
    /\ CliIdle

CallCalculateWordStatistics ==
    /\ op = "none"
    /\ op' = "calculate_word_statistics"
    /\ ret' = [kind |-> "Statistics", value |-> calculate_word_statistics(text)]
    /\ UNCHANGED text
    /\ UNCHANGED addVars
    /\ UNCHANGED cliVars

CallCountWords ==
    /\ op = "none"
    /\ op' = "count_words"
    /\ ret' = [kind |-> "int", value |-> count_words(text)]
    /\ UNCHANGED text
    /\ UNCHANGED addVars
    /\ UNCHANGED cliVars

CallCountCharacters ==
    /\ op = "none"
    /\ op' = "count_characters"
    /\ ret' = [kind |-> "int", value |-> count_characters(text)]
    /\ UNCHANGED text
    /\ UNCHANGED addVars
    /\ UNCHANGED cliVars

CallCountCharactersWithSpace ==
    /\ op = "none"
    /\ op' = "count_characters_with_space"
    /\ ret' = [kind |-> "int", value |-> count_characters_with_space(text)]
    /\ UNCHANGED text
    /\ UNCHANGED addVars
    /\ UNCHANGED cliVars

Next ==
    \/ CallCalculateWordStatistics
    \/ CallCountWords
    \/ CallCountCharacters
    \/ CallCountCharactersWithSpace

Spec == Init /\ [][Next]_vars

(***************************************************************************)
(* SpecAdd: expressions over Statistics records (statistics.py).           *)
(***************************************************************************)
InitAdd ==
    /\ CounterIdle
    /\ CliIdle
    /\ recA \in Records
    /\ recB \in Records
    /\ recC \in Records
    /\ expr = "none"
    /\ lhs = NoRecord
    /\ rhs = NoRecord
    /\ raised = "none"

\* a + b and b + a
AddBothOrders ==
    /\ expr = "none"
    /\ expr' = "a+b, b+a"
    /\ lhs' = Statistics_add(recA, recB)
    /\ rhs' = Statistics_add(recB, recA)
    /\ UNCHANGED <<recA, recB, recC, raised>>
    /\ UNCHANGED counterVars
    /\ UNCHANGED cliVars

\* (a + b) + c and a + (b + c)
AddBothGroupings ==
    /\ expr = "none"
    /\ expr' = "(a+b)+c, a+(b+c)"
    /\ lhs' = Statistics_add(Statistics_add(recA, recB), recC)
    /\ rhs' = Statistics_add(recA, Statistics_add(recB, recC))
    /\ UNCHANGED <<recA, recB, recC, raised>>
    /\ UNCHANGED counterVars
    /\ UNCHANGED cliVars

\* a + zero and zero + a
AddZero ==
    /\ expr = "none"
    /\ expr' = "a+0, 0+a"
    /\ lhs' = Statistics_add(recA, ZeroStatistics)
    /\ rhs' = Statistics_add(ZeroStatistics, recA)
    /\ UNCHANGED <<recA, recB, recC, raised>>
    /\ UNCHANGED counterVars
    /\ UNCHANGED cliVars

SetAttr_NotFrozen ==
    /\ expr = "none"
    /\ \E f \in {"words", "characters_no_space", "characters_with_space",
                 "non_asian_words", "asian_characters"} :
           recA' = [recA EXCEPT ![f] = recA[f] + 1]
    /\ expr' = "a.field = value"
    /\ UNCHANGED <<recB, recC, lhs, rhs, raised>>
    /\ UNCHANGED counterVars
    /\ UNCHANGED cliVars

\* a.field = value: the dataclass is frozen, the assignment raises and the
\* record keeps its fields.
SetAttr ==
    /\ expr = "none"
    /\ expr' = "a.field = value"
    /\ raised' = "AttributeError"
    /\ UNCHANGED <<recA, recB, recC, lhs, rhs>>
    /\ UNCHANGED counterVars
    /\ UNCHANGED cliVars

NextAdd ==
    \/ AddBothOrders
    \/ AddBothGroupings
    \/ AddZero
    \/ SetAttr

SpecAdd == InitAdd /\ [][NextAdd]_vars

(***************************************************************************)
(* The command line (cli.py, formatter.py).                                *)
(***************************************************************************)

\* Contents a readable input can hold: empty, two Latin words, three Han
\* characters, and a mixed text whose five counts are pairwise different.
Contents ==
    { << >>,
      <<97, 32, 97>>,
      <<19990, 19990, 19990>>,
      <<97, 97, 32, 19990, 19990, 8232>> }

\* The exceptions of read_file that run catches.
FileErrors ==
    {"FileNotFoundError", "IsADirectoryError", "PermissionError",
     "UnicodeDecodeError"}

\* What read_file(path) does: returns a text or raises.
FileEntries ==
    {[kind |-> "text", text |-> t] : t \in Contents}
        \cup {[kind |-> "error", error |-> e] : e \in FileErrors}

\* What read_stdin() does: returns a text or raises on undecodable bytes.
StdinEntries ==
    {[kind |-> "text", text |-> t] : t \in Contents}
        \cup {[kind |-> "error", error |-> "UnicodeDecodeError"]}

\* The single-value flags: a mutually exclusive group, so at most one is set.
NoValueFlag ==
    [words |-> FALSE, chars |-> FALSE, chars_with_space |-> FALSE,
     asian |-> FALSE, non_asian |-> FALSE]

ValueFlags ==
    {NoValueFlag} \cup
    {[NoValueFlag EXCEPT ![f] = TRUE] :
        f \in {"words", "chars", "chars_with_space", "asian", "non_asian"}}

\* The Namespace create_parser produces for n FILE arguments.
Namespaces(n) ==
    {[files |-> [i \in 1..n |-> i], format |-> fmt, total |-> t,
      words |-> v.words, chars |-> v.chars,
      chars_with_space |-> v.chars_with_space,
      asian |-> v.asian, non_asian |-> v.non_asian] :
        fmt \in {"json", "table", "auto"}, t \in BOOLEAN, v \in ValueFlags}

\* Statistics.to_dict
to_dict(self) ==
    [words |-> self.words,
     characters_no_space |-> self.characters_no_space,
     characters_with_space |-> self.characters_with_space,
     non_asian_words |-> self.non_asian_words,
     asian_characters |-> self.asian_characters]

\* format_json / format_table of one record: the five fields.
format_single(output_format, st) ==
    [kind |-> output_format, shape |-> "record", record |-> to_dict(st)]

\* format_json / format_table of a list of (name, record) pairs with a
\* total: one entry per pair, in order, then the total.
format_multiple(output_format, pairs, tot) ==
    [kind |-> output_format, shape |-> "files",
     files |-> [i \in DOMAIN pairs |->
                  [file |-> pairs[i].file, record |-> to_dict(pairs[i].stats)]],
     total |-> to_dict(tot)]

\* run, lines 207-209
output_format ==
    IF args.format = "auto"
    THEN (IF tty THEN "table" ELSE "json")
    ELSE args.format

\* get_single_value: << >> stands for None, <<v>> for the integer v.
get_single_value(st, a) ==
    IF a.words THEN <<st.words>>
    ELSE IF a.chars THEN <<st.characters_no_space>>
    ELSE IF a.chars_with_space THEN <<st.characters_with_space>>
    ELSE IF a.non_asian THEN <<st.non_asian_words>>
    ELSE IF a.asian THEN <<st.asian_characters>>
    ELSE << >>

\* Variant of target_stats that always reports the first input's record
\* unless --total is given.
target_stats_FirstUnlessTotal(a, res, tot) ==
    IF a.total THEN tot ELSE res[1].stats

\* run, line 222
target_stats(a, res, tot) ==
    IF a.total \/ Len(res) > 1 THEN tot ELSE res[1].stats

\* Variant of printed that tests the truth of single_value, not "is not None".
printed_Truthy(a, fmt, res, tot) ==
    LET target == target_stats(a, res, tot)
        single_value == get_single_value(target, a)
    IN  IF single_value # << >> /\ single_value[1] # 0
        THEN [kind |-> "int", value |-> single_value[1]]
        ELSE IF a.total \/ Len(res) = 1
        THEN format_single(fmt, target)
        ELSE format_multiple(fmt, res, tot)

\* run, lines 221-234: the one thing run prints to stdout.
printed(a, fmt, res, tot) ==
    LET target == target_stats(a, res, tot)
        single_value == get_single_value(target, a)
    IN  IF single_value # << >>
        THEN [kind |-> "int", value |-> single_value[1]]
        ELSE IF a.total \/ Len(res) = 1
        THEN format_single(fmt, target)
        ELSE format_multiple(fmt, res, tot)

\* The reason of a UnicodeDecodeError, as the codec words it.
DecodeReason == "invalid start byte"

\* Variant of except_clause that reports every OSError with one message.
except_clause_OneMessage(e, filename) ==
    CASE e \in {"FileNotFoundError", "IsADirectoryError", "PermissionError"} ->
            [message |-> <<[text |-> "Error: File not found: ",
                            filename |-> filename, reason |-> ""]>>,
             close |-> FALSE, status |-> 1]
      [] e = "UnicodeDecodeError" ->
            [message |-> <<[text |-> "Error: File is not valid UTF-8 text: ",
                            filename |-> 0, reason |-> DecodeReason]>>,
             close |-> FALSE, status |-> 1]
      [] e = "KeyboardInterrupt" ->
            [message |-> <<[text |-> "\nInterrupted.",
                            filename |-> 0, reason |-> ""]>>,
             close |-> FALSE, status |-> 130]
      [] e = "BrokenPipeError" ->
            [message |-> << >>, close |-> TRUE, status |-> 0]

\* run, lines 236-253: what each except clause prints to stderr, whether it
\* closes stderr, and the status it returns.
except_clause(e, filename) ==
    CASE e = "FileNotFoundError" ->
            [message |-> <<[text |-> "Error: File not found: ",
                            filename |-> filename, reason |-> ""]>>,
             close |-> FALSE, status |-> 1]
      [] e = "IsADirectoryError" ->
            [message |-> <<[text |-> "Error: Is a directory: ",
                            filename |-> filename, reason |-> ""]>>,
             close |-> FALSE, status |-> 1]
      [] e = "PermissionError" ->
            [message |-> <<[text |-> "Error: Permission denied: ",
                            filename |-> filename, reason |-> ""]>>,
             close |-> FALSE, status |-> 1]
      [] e = "UnicodeDecodeError" ->
            [message |-> <<[text |-> "Error: File is not valid UTF-8 text: ",
                            filename |-> 0, reason |-> DecodeReason]>>,
             close |-> FALSE, status |-> 1]
      [] e = "KeyboardInterrupt" ->
            [message |-> <<[text |-> "\nInterrupted.",
                            filename |-> 0, reason |-> ""]>>,
             close |-> FALSE, status |-> 130]
      [] e = "BrokenPipeError" ->
            [message |-> << >>, close |-> TRUE, status |-> 0]

\* The try statement of run leaves through the except clause of e.
Except(e, filename) ==
    LET h == except_clause(e, filename)
    IN  /\ exc' = e
        /\ stderr' = stderr \o h.message
        /\ stderr_closed' = h.close
        /\ status' = h.status
        /\ pc' = "done"

InitCli ==
    /\ CounterIdle
    /\ AddIdle
    /\ \E n \in 0..MaxFiles :
        /\ args \in Namespaces(n)
        /\ fs \in [1..n -> FileEntries]
        /\ stdin \in (IF n = 0 THEN StdinEntries
                               ELSE {[kind |-> "text", text |-> << >>]})
    /\ tty \in BOOLEAN
    /\ pc = "input"
    /\ idx = 1
    /\ opened = << >>
    /\ results = << >>
    /\ total = ZeroStatistics
    /\ stdout = << >>
    /\ stderr = << >>
    /\ stderr_closed = FALSE
    /\ status = 0
    /\ exc = "none"

\* Variant of loop_body whose total is the last record, not the running sum.
loop_body_KeepsLast(res, tot, path, content) ==
    LET st == calculate_word_statistics(content)
    IN  [results |-> Append(res, [file |-> path, stats |-> st]),
         total |-> st]

\* process_files, lines 154-157: one iteration of the loop over paths, for a
\* path whose content read_file returned.
loop_body(res, tot, path, content) ==
    LET st == calculate_word_statistics(content)
    IN  [results |-> Append(res, [file |-> path, stats |-> st]),
         total |-> Statistics_add(tot, st)]

\* run, lines 217-219: no FILE argument, the input is stdin.
RunReadStdin ==
    /\ pc = "input"
    /\ args.files = << >>
    /\ IF stdin.kind = "error"
       THEN /\ Except(stdin.error, 0)
            /\ UNCHANGED <<results, total>>
       ELSE LET st == calculate_word_statistics(stdin.text)
            IN  /\ results' = <<[file |-> 0, stats |-> st]>>
                /\ total' = st
                /\ pc' = "output"
                /\ UNCHANGED <<stderr, stderr_closed, status, exc>>
    /\ UNCHANGED <<args, fs, stdin, tty, idx, opened, stdout>>
    /\ UNCHANGED counterVars
    /\ UNCHANGED addVars

\* Variant of RunProcessFile that writes each file's record to stdout as
\* soon as the file is counted.
RunProcessFile_Streaming ==
    /\ pc = "input"
    /\ args.files # << >>
    /\ idx <= Len(args.files)
    /\ opened' = Append(opened, args.files[idx])
    /\ LET path == args.files[idx]
       IN  IF fs[path].kind = "error"
           THEN /\ Except(fs[path].error, path)
                /\ UNCHANGED <<results, total, idx, stdout>>
           ELSE LET after == loop_body(results, total, path, fs[path].text)
                IN  /\ results' = after.results
                    /\ total' = after.total
                    /\ idx' = idx + 1
                    /\ pc' = IF idx = Len(args.files) THEN "output" ELSE "input"
                    /\ stdout' = Append(stdout,
                                        format_single(output_format,
                                                      after.results[idx].stats))
                    /\ UNCHANGED <<stderr, stderr_closed, status, exc>>
    /\ UNCHANGED <<args, fs, stdin, tty>>
    /\ UNCHANGED counterVars
    /\ UNCHANGED addVars

\* run, lines 214-215, and process_files: one iteration of the loop.  When
\* read_file raises, the loop and process_files are left and the except
\* clause of run acts; after the last path process_files returns.
RunProcessFile ==
    /\ pc = "input"
    /\ args.files # << >>
    /\ idx <= Len(args.files)
    /\ opened' = Append(opened, args.files[idx])
    /\ LET path == args.files[idx]
       IN  IF fs[path].kind = "error"
           THEN /\ Except(fs[path].error, path)
                /\ UNCHANGED <<results, total, idx>>
           ELSE LET after == loop_body(results, total, path, fs[path].text)
                IN  /\ results' = after.results
                    /\ total' = after.total
                    /\ idx' = idx + 1
                    /\ pc' = IF idx = Len(args.files) THEN "output" ELSE "input"
                    /\ UNCHANGED <<stderr, stderr_closed, status, exc>>
    /\ UNCHANGED <<args, fs, stdin, tty, stdout>>
    /\ UNCHANGED counterVars
    /\ UNCHANGED addVars

\* run, lines 221-234 and 255: select the record, print, return 0.  The write
\* to stdout either succeeds or raises BrokenPipeError (lines 251-253).
RunPrint ==
    /\ pc = "output"
    /\ \E broken \in BOOLEAN :
        IF broken
        THEN /\ Except("BrokenPipeError", 0)
             /\ UNCHANGED stdout
        ELSE /\ stdout' = Append(stdout,
                                 printed(args, output_format, results, total))
             /\ status' = 0
             /\ pc' = "done"
             /\ UNCHANGED <<stderr, stderr_closed, exc>>
    /\ UNCHANGED <<args, fs, stdin, tty, idx, opened, results, total>>
    /\ UNCHANGED counterVars
    /\ UNCHANGED addVars

\* run, lines 248-250: KeyboardInterrupt arrives inside the try statement,
\* while reading, or while printing (before or after the write).
RunInterrupt ==
    /\ pc \in {"input", "output"}
    /\ Except("KeyboardInterrupt", 0)
    /\ \/ UNCHANGED stdout
       \/ /\ pc = "output"
          /\ stdout' = Append(stdout,
                              printed(args, output_format, results, total))
    /\ UNCHANGED <<args, fs, stdin, tty, idx, opened, results, total>>
    /\ UNCHANGED counterVars
    /\ UNCHANGED addVars

NextCli ==
    \/ RunReadStdin
    \/ RunProcessFile
    \/ RunPrint
    \/ RunInterrupt

SpecCli == InitCli /\ [][NextCli]_vars

(***************************************************************************)
(* Vocabulary of the properties.                                           *)
(***************************************************************************)
\* calculate_word_statistics has returned; stats is the record it returned.
Called == op = "calculate_word_statistics"

stats == ret.value

\* t without its i-th code point: t is Remove(t, i) with t[i] inserted.
Remove(t, i) == SubSeq(t, 1, i - 1) \o SubSeq(t, i + 1, Len(t))

\* Position i of t lies inside one of the matches.
Covered(matches, i) ==
    \E k \in DOMAIN matches : matches[k].start <= i /\ i <= matches[k].end

\* Zs, tab, FF, VT: the whitespace set without CR and LF.
IsInlineSpace(c) == SPACES(c) /\ ~BREAKS(c)

\* Neither Asian nor in the whitespace set that count_characters removes.
IsPlainMember(c) == ~ASIAN_PATTERN(c) /\ ~SPACES(c)

\* Number of maximal runs of code points of t that are plain members.
PlainRuns(t) ==
    Cardinality({i \in DOMAIN t :
                    IsPlainMember(t[i]) /\ (i = 1 \/ ~IsPlainMember(t[i - 1]))})

C2_ExclusionInvisible ==
    Called =>
        \A i \in DOMAIN text :
            CHAR_EXCLUDES(text[i]) =>
                stats = calculate_word_statistics(Remove(text, i))

\* C2 (amended): inserting one excluded mark at any position of any text
\* leaves characters_no_space, characters_with_space and asian_characters
\* unchanged; words and non_asian_words are unchanged when the mark is
\* inserted directly before or after a code point that is neither Asian nor
\* matched by \s, and are both raised by exactly 1 otherwise.
C2_ExclusionAmended ==
    Called =>
        \A i \in DOMAIN text :
            CHAR_EXCLUDES(text[i]) =>
                LET before == calculate_word_statistics(Remove(text, i))
                    joins ==
                        \/ i > 1 /\ NON_ASIAN_WORDS(text[i - 1])
                        \/ i < Len(text) /\ NON_ASIAN_WORDS(text[i + 1])
                    added == IF joins THEN 0 ELSE 1
                IN  /\ stats.characters_no_space = before.characters_no_space
                    /\ stats.characters_with_space = before.characters_with_space
                    /\ stats.asian_characters = before.asian_characters
                    /\ stats.non_asian_words = before.non_asian_words + added
                    /\ stats.words = before.words + added

C2_Witness ==
    /\ Called
    /\ text = <<19990, 65279, 19990>>
    /\ stats.asian_characters = 2
    /\ stats.non_asian_words = 1
    /\ stats.words = 3
    /\ stats.characters_no_space = 2

(***************************************************************************)
(* C3                                                                      *)
(***************************************************************************)
\* C3: inserting one U+2028 or U+2029 at any position of any text raises
\* words by exactly 1 and leaves non_asian_words, asian_characters,
\* characters_no_space and characters_with_space unchanged.
C3_SeparatorAddsOneWord ==
    Called =>
        \A i \in DOMAIN text :
            UNICODE_SEPARATORS(text[i]) =>
                LET before == calculate_word_statistics(Remove(text, i))
                IN  /\ stats.words = before.words + 1
                    /\ stats.non_asian_words = before.non_asian_words
                    /\ stats.asian_characters = before.asian_characters
                    /\ stats.characters_no_space = before.characters_no_space
                    /\ stats.characters_with_space = before.characters_with_space

(***************************************************************************)
(* C4                                                                      *)
(***************************************************************************)
\* C4: for every text, non_asian_words is the number of maximal runs of
\* code points that are neither Asian nor in the whitespace set that
\* count_characters removes (Zs, tab, LF, CR, FF, VT).
C4_NonAsianRuns ==
    Called => stats.non_asian_words = PlainRuns(text)

(***************************************************************************)
(* C5                                                                      *)
(***************************************************************************)
\* C5: every code point of a text belongs to exactly one of the classes
\* Asian, member of a non-Asian word match, whitespace (Zs, tab, LF, CR, FF,
\* VT): the Asian set and the whitespace set are disjoint and every code
\* point outside both lies in a non-Asian word match.
C5_ThreeClasses ==
    Called =>
        \A i \in DOMAIN text :
            LET asian == Covered(finditer("ASIANS", text), i)
                member == Covered(finditer("NON_ASIAN_WORDS", text), i)
                space == SPACES(text[i])
            IN  /\ asian \/ member \/ space
                /\ ~(asian /\ member)
                /\ ~(asian /\ space)
                /\ ~(member /\ space)

(***************************************************************************)
(* C6                                                                      *)
(***************************************************************************)
\* C6: every Asian code point counts as one word and one character: it adds
\* 1 to asian_characters, to characters_no_space and to
\* characters_with_space, so that
\* asian_characters <= characters_no_space <= characters_with_space.
C6_AsianCountedOnce ==
    Called =>
        LET asian == Cardinality({i \in DOMAIN text : ASIAN_PATTERN(text[i])})
            visible == Cardinality({i \in DOMAIN text :
                           /\ ~ASIAN_PATTERN(text[i])
                           /\ ~SPACES(text[i])
                           /\ ~CHAR_EXCLUDES(text[i])})
            kept == Cardinality({i \in DOMAIN text :
                        /\ ~ASIAN_PATTERN(text[i])
                        /\ ~BREAKS(text[i])
                        /\ ~CHAR_EXCLUDES(text[i])})
        IN  /\ stats.asian_characters = asian
            /\ stats.characters_no_space = asian + visible
            /\ stats.characters_with_space = asian + kept
            /\ stats.asian_characters <= stats.characters_no_space
            /\ stats.characters_no_space <= stats.characters_with_space

(***************************************************************************)
(* C7                                                                      *)
(***************************************************************************)
\* C7: for a text made only of whitespace-set code points (Zs, tab, LF, CR,
\* FF, VT) the record has words, non_asian_words, asian_characters and
\* characters_no_space all 0 and characters_with_space equal to the number
\* of code points other than CR and LF.
C7_WhitespaceOnly ==
    (Called /\ \A i \in DOMAIN text : SPACES(text[i])) =>
        /\ stats.words = 0
        /\ stats.non_asian_words = 0
        /\ stats.asian_characters = 0
        /\ stats.characters_no_space = 0
        /\ stats.characters_with_space
               = Cardinality({i \in DOMAIN text : text[i] \notin {13, 10}})

(***************************************************************************)
(* C8                                                                      *)
(***************************************************************************)
\* C8: for every text characters_with_space >= characters_no_space; the
\* difference is exactly the number of Zs, tab, FF and VT code points, so
\* the two are equal when the text has no whitespace other than CR and LF.
C8_WithSpaceDominates ==
    Called =>
        /\ stats.characters_with_space >= stats.characters_no_space
        /\ stats.characters_with_space - stats.characters_no_space
               = Cardinality({i \in DOMAIN text : IsInlineSpace(text[i])})
        /\ (\A i \in DOMAIN text : ~IsInlineSpace(text[i])) =>
               stats.characters_with_space = stats.characters_no_space

C8_Witness ==
    /\ Called
    /\ text = <<32, 10, 97>>
    /\ stats.characters_with_space = 2
    /\ stats.characters_no_space = 1

(***************************************************************************)
(* C9                                                                      *)
(***************************************************************************)
\* C9: each standalone accessor returns the corresponding field of the
\* record calculate_word_statistics returns for the same text.
C9_AccessorsAgree ==
    /\ op = "count_words" =>
           ret.value = calculate_word_statistics(text).words
    /\ op = "count_characters" =>
           ret.value = calculate_word_statistics(text).characters_no_space
    /\ op = "count_characters_with_space" =>
           ret.value = calculate_word_statistics(text).characters_with_space
    /\ Called =>
           /\ stats.words = count_words(text)
           /\ stats.characters_no_space = count_characters(text)
           /\ stats.characters_with_space = count_characters_with_space(text)

C9_Witness ==
    /\ op = "count_words"
    /\ text = <<97, 8232, 19990>>
    /\ ret.value = 3

C11_CharacterCounts ==
    LET noSpace == Cardinality({i \in DOMAIN text :
                       ~SPACES(text[i]) /\ ~CHAR_EXCLUDES(text[i])})
        withSpace == Cardinality({i \in DOMAIN text :
                         ~BREAKS(text[i]) /\ ~CHAR_EXCLUDES(text[i])})
    IN  /\ Called =>
               /\ stats.characters_no_space = noSpace
               /\ stats.characters_with_space = withSpace
        /\ op = "count_characters" => ret.value = noSpace
        /\ op = "count_characters_with_space" => ret.value = withSpace

C11_Witness ==
    /\ Called
    /\ text = <<65279, 32, 65024>>
    /\ stats.characters_no_space = 0
    /\ stats.characters_with_space = 1

(***************************************************************************)
(* C12                                                                     *)
(***************************************************************************)
\* C12: asian_characters is the total number of Asian-set code points of the
\* text (the sum of the lengths of the Asian runs, not their number),
\* however other code points split them into runs.
C12_AsianTotal ==
    Called =>
        stats.asian_characters
            = Cardinality({i \in DOMAIN text : ASIAN_PATTERN(text[i])})

C12_Witness ==
    /\ Called
    /\ text = <<19990, 19990, 19990>>
    /\ stats.asian_characters = 3

(***************************************************************************)
(* C13                                                                     *)
(***************************************************************************)
\* C13: the four functions are total: each can be called on every text and
\* returns non-negative integers, and for the empty text every result and
\* every field of the record is 0.
C13_Total ==
    /\ op = "none" =>
           /\ ENABLED CallCalculateWordStatistics
           /\ ENABLED CallCountWords
           /\ ENABLED CallCountCharacters
           /\ ENABLED CallCountCharactersWithSpace
    /\ ret.kind = "int" =>
           /\ ret.value \in Nat
           /\ text = << >> => ret.value = 0
    /\ ret.kind = "Statistics" =>
           /\ stats.words \in Nat
           /\ stats.characters_no_space \in Nat
           /\ stats.characters_with_space \in Nat
           /\ stats.non_asian_words \in Nat
           /\ stats.asian_characters \in Nat
           /\ text = << >> => stats = Statistics(0, 0, 0, 0, 0)

C13_Witness ==
    /\ Called
    /\ text = << >>
    /\ stats.words = 0
    /\ stats.characters_with_space = 0

(***************************************************************************)
(* C20                                                                     *)
(***************************************************************************)
\* C20: excluded marks are ordinary non-Asian content of the word scan: a
\* mark between two code points of a non-Asian word lies in the same match
\* as both, and a non-empty text of excluded marks only has
\* non_asian_words = 1 and words = 1 with both character counts 0.
C20_MarksAreWordContent ==
    Called =>
        /\ \A i \in DOMAIN text :
               (/\ CHAR_EXCLUDES(text[i])
                /\ i > 1 /\ i < Len(text)
                /\ NON_ASIAN_WORDS(text[i - 1])
                /\ NON_ASIAN_WORDS(text[i + 1])) =>
                   \E k \in DOMAIN finditer("NON_ASIAN_WORDS", text) :
                       /\ finditer("NON_ASIAN_WORDS", text)[k].start <= i - 1
                       /\ finditer("NON_ASIAN_WORDS", text)[k].end >= i + 1
        /\ (text # << >> /\ \A i \in DOMAIN text : CHAR_EXCLUDES(text[i])) =>
               /\ stats.non_asian_words = 1
               /\ stats.words = 1
               /\ stats.characters_no_space = 0
               /\ stats.characters_with_space = 0

C20_Witness ==
    /\ Called
    /\ text = <<97, 8203, 97>>
    /\ stats.non_asian_words = 1
    /\ stats.words = 1
    /\ stats.characters_no_space = 2

(***************************************************************************)
(* C14                                                                     *)
(***************************************************************************)
\* C14: Statistics addition is commutative (a + b = b + a) and associative
\* ((a + b) + c = a + (b + c)) for arbitrary records, and adding the
\* all-zero record on either side returns a record equal to the other
\* operand.
C14_AdditionLaws ==
    /\ expr = "a+b, b+a" => lhs = rhs
    /\ expr = "(a+b)+c, a+(b+c)" => lhs = rhs
    /\ expr = "a+0, 0+a" => (lhs = recA /\ rhs = recA)

C14_Witness ==
    /\ expr = "(a+b)+c, a+(b+c)"
    /\ recA.non_asian_words = MaxField /\ recA.asian_characters = 0
    /\ recB.non_asian_words = 0 /\ recB.asian_characters = MaxField
    /\ recC.non_asian_words = MaxField /\ recC.asian_characters = MaxField
    /\ lhs.non_asian_words = 2 * MaxField
    /\ rhs.asian_characters = 2 * MaxField

(***************************************************************************)
(* C15                                                                     *)
(***************************************************************************)
\* C15: a + b yields a record whose five fields are the sums of the same
\* fields of a and b, and no step changes a field of an existing record:
\* the operands are the same records after every addition and after every
\* attempted assignment to a field.
C15_NewRecordOperandsUnchanged ==
    [][/\ recA' = recA
       /\ recB' = recB
       /\ recC' = recC
       /\ expr' = "a+b, b+a" =>
              /\ lhs'.words = recA.words + recB.words
              /\ lhs'.characters_no_space
                     = recA.characters_no_space + recB.characters_no_space
              /\ lhs'.characters_with_space
                     = recA.characters_with_space + recB.characters_with_space
              /\ lhs'.non_asian_words = recA.non_asian_words + recB.non_asian_words
              /\ lhs'.asian_characters
                     = recA.asian_characters + recB.asian_characters]_vars

C15_Witness ==
    /\ expr = "a+b, b+a"
    /\ recA.words = MaxField /\ recB.words = MaxField
    /\ recA.asian_characters = 0 /\ recB.asian_characters = MaxField
    /\ lhs.words = 2 * MaxField
    /\ lhs.asian_characters = MaxField

(***************************************************************************)
(* Vocabulary of the claims about the command line.                        *)
(***************************************************************************)
FieldNames ==
    {"words", "characters_no_space", "characters_with_space",
     "non_asian_words", "asian_characters"}

\* process_files(paths), lines 144-159, for readable paths.
process_files(paths) ==
    LET R[i \in 0..Len(paths)] ==
            IF i = 0
            THEN [results |-> << >>, total |-> ZeroStatistics]
            ELSE loop_body(R[i - 1].results, R[i - 1].total,
                           paths[i], fs[paths[i]].text)
    IN  R[Len(paths)]

\* process_files has read every path and has just returned to run.
ProcessFilesReturned ==
    /\ args.files # << >>
    /\ idx = Len(args.files) + 1
    /\ pc = "output"

\* The record of the i-th FILE argument.
OwnRecord(i) == calculate_word_statistics(fs[args.files[i]].text)

\* The sum of field f over the records of the first n FILE arguments.
SumOfField(f, n) ==
    LET S[i \in 0..n] == IF i = 0 THEN 0 ELSE S[i - 1] + OwnRecord(i)[f]
    IN  S[n]

\* The field-wise sum of the records of all FILE arguments.
Combined == [f \in FieldNames |-> SumOfField(f, Len(args.files))]

\* The record of the only input: the one file, or stdin.
OnlyRecord ==
    IF args.files = << >>
    THEN calculate_word_statistics(stdin.text)
    ELSE OwnRecord(1)

\* The record run reports: the combined total for two or more files, the
\* input's own record otherwise.
Selected == IF Len(args.files) >= 2 THEN Combined ELSE OnlyRecord

AnyValueFlag ==
    args.words \/ args.chars \/ args.chars_with_space \/ args.asian
        \/ args.non_asian

\* The field each single-value flag asks for: -w, -c, -C, -a, -A.
FlagField ==
    CASE args.words -> "words"
      [] args.chars -> "characters_no_space"
      [] args.chars_with_space -> "characters_with_space"
      [] args.asian -> "asian_characters"
      [] args.non_asian -> "non_asian_words"

IsBareInteger(o) == DOMAIN o = {"kind", "value"} /\ o.kind = "int"

IsBareRecord(o) ==
    /\ DOMAIN o = {"kind", "shape", "record"}
    /\ o.shape = "record"

IsFileList(o) ==
    /\ DOMAIN o = {"kind", "shape", "files", "total"}
    /\ o.shape = "files"

\* Every input has been read and counted without an exception.
InputRead == Len(results) = IF args.files = << >> THEN 1 ELSE Len(args.files)

(***************************************************************************)
(* C16: the total process_files returns for readable files is the          *)
(* field-wise sum of the per-file records and is the same for every        *)
(* ordering of the same files; the returned list has one entry per path,   *)
(* in the order the paths were given.                                      *)
(***************************************************************************)
C16_TotalIsOrderFreeSum ==
    ProcessFilesReturned =>
        /\ \A f \in FieldNames : total[f] = SumOfField(f, Len(args.files))
        /\ \A p \in Permutations(DOMAIN args.files) :
              process_files([i \in DOMAIN args.files |-> args.files[p[i]]]).total
                  = total
        /\ Len(results) = Len(args.files)
        /\ \A i \in DOMAIN args.files :
              /\ results[i].file = args.files[i]
              /\ results[i].stats = OwnRecord(i)

C16_Witness ==
    /\ ProcessFilesReturned
    /\ Len(args.files) = 2
    /\ fs[1].text = <<97, 32, 97>>
    /\ fs[2].text = <<97, 97, 32, 19990, 19990, 8232>>
    /\ results[1].stats.words = 2
    /\ results[2].stats.words = 4
    /\ total.words = 6
    /\ total.asian_characters = 2

(***************************************************************************)
(* C17: what run writes to stdout reports the selected record.  With two   *)
(* or more files a single-value flag reports the combined total, the       *)
(* default structured output holds one entry per file plus the total, and  *)
(* --total gives the bare total record without a per-file list; with one   *)
(* file or stdin the reported record is the input's own record, with or    *)
(* without --total.                                                        *)
(***************************************************************************)
C17_ReportedRecord ==
    stdout # << >> =>
        LET out == stdout[1]
            n == Len(args.files)
        IN  /\ Len(stdout) = 1
            /\ (n >= 2 /\ AnyValueFlag) =>
                  (IsBareInteger(out) /\ out.value = Combined[FlagField])
            /\ (n >= 2 /\ ~AnyValueFlag /\ ~args.total) =>
                  /\ IsFileList(out)
                  /\ Len(out.files) = n
                  /\ \A i \in 1..n :
                        /\ out.files[i].file = args.files[i]
                        /\ out.files[i].record = OwnRecord(i)
                  /\ out.total = Combined
            /\ (n >= 2 /\ ~AnyValueFlag /\ args.total) =>
                  (IsBareRecord(out) /\ out.record = Combined)
            /\ (n <= 1 /\ AnyValueFlag) =>
                  (IsBareInteger(out) /\ out.value = OnlyRecord[FlagField])
            /\ (n <= 1 /\ ~AnyValueFlag) =>
                  (IsBareRecord(out) /\ out.record = OnlyRecord)

C17_Witness ==
    /\ pc = "done"
    /\ exc = "none"
    /\ Len(args.files) = 2
    /\ args.asian
    /\ ~args.total
    /\ fs[1].text = <<19990, 19990, 19990>>
    /\ fs[2].text = <<97, 97, 32, 19990, 19990, 8232>>
    /\ stdout = <<[kind |-> "int", value |-> 5]>>

ErrorText(e) ==
    CASE e = "FileNotFoundError" -> "Error: File not found: "
      [] e = "IsADirectoryError" -> "Error: Is a directory: "
      [] e = "PermissionError" -> "Error: Permission denied: "
      [] e = "UnicodeDecodeError" -> "Error: File is not valid UTF-8 text: "

(***************************************************************************)
(* C19: file-not-found, is-a-directory, permission-denied and              *)
(* invalid-UTF-8 each end run with exactly one message on stderr, their    *)
(* own and different from the others', and status 1; an interrupt ends     *)
(* run with status 130; a broken output pipe ends run with status 0 and    *)
(* nothing on stderr.                                                      *)
(***************************************************************************)
C19_FailureOutcomes ==
    pc = "done" =>
        /\ exc \in FileErrors =>
              /\ Len(stderr) = 1
              /\ stderr[1].text = ErrorText(exc)
              /\ \A e \in FileErrors \ {exc} : stderr[1].text # ErrorText(e)
              /\ stderr[1].filename =
                    (IF exc = "UnicodeDecodeError" THEN 0 ELSE args.files[idx])
              /\ status = 1
        /\ exc = "KeyboardInterrupt" => status = 130
        /\ exc = "BrokenPipeError" => (status = 0 /\ stderr = << >>)

C19_Witness ==
    /\ pc = "done"
    /\ exc = "PermissionError"
    /\ args.files = <<1, 2>>
    /\ fs[2].kind = "error"
    /\ stderr = <<[text |-> "Error: Permission denied: ", filename |-> 2,
                   reason |-> ""]>>
    /\ status = 1

\* The i-th code point of t lies in a non-Asian word run of t.
IsWordMember(t, i) ==
    /\ i \in DOMAIN t
    /\ Covered(finditer("NON_ASIAN_WORDS", t), i)

(***************************************************************************)
(* C21: for every way to write a text as T1 followed by T2,                *)
(* asian_characters, characters_no_space and characters_with_space of the  *)
(* text are the sums of the values for T1 and T2; non_asian_words is the   *)
(* sum, or the sum minus 1 exactly when T1 ends with and T2 begins with a  *)
(* member of a non-Asian word run; so words is at most the sum of the      *)
(* words of T1 and T2 and lower by at most 1.                              *)
(***************************************************************************)
C21_ConcatenationBound ==
    Called =>
        \A k \in 0..Len(text) :
            LET T1 == SubSeq(text, 1, k)
                T2 == SubSeq(text, k + 1, Len(text))
                s1 == calculate_word_statistics(T1)
                s2 == calculate_word_statistics(T2)
                merged == IsWordMember(T1, Len(T1)) /\ IsWordMember(T2, 1)
            IN  /\ stats.asian_characters
                      = s1.asian_characters + s2.asian_characters
                /\ stats.characters_no_space
                      = s1.characters_no_space + s2.characters_no_space
                /\ stats.characters_with_space
                      = s1.characters_with_space + s2.characters_with_space
                /\ stats.non_asian_words
                      = s1.non_asian_words + s2.non_asian_words
                          - (IF merged THEN 1 ELSE 0)
                /\ stats.words <= s1.words + s2.words
                /\ stats.words >= s1.words + s2.words - 1

C21_Witness ==
    /\ Called
    /\ text = <<97, 97, 32>>
    /\ calculate_word_statistics(<<97>>).non_asian_words = 1
    /\ calculate_word_statistics(<<97, 32>>).non_asian_words = 1
    /\ stats.non_asian_words = 1
    /\ stats.words = 1

\* Reading a file of the argument list has failed.
ReadFailed == args.files # << >> /\ exc \in FileErrors

(***************************************************************************)
(* C22: every input file is read and counted before anything is written    *)
(* to stdout; so when reading a file of the argument list fails, nothing   *)
(* has been written to stdout, the files read are the ones up to the       *)
(* failing one and none after it, and run has returned 1, also when        *)
(* earlier files were read and counted.                                    *)
(***************************************************************************)
C22_NoPartialOutput ==
    /\ (stdout # << >> /\ args.files # << >>) =>
          /\ opened = args.files
          /\ Len(results) = Len(args.files)
          /\ exc \notin FileErrors
    /\ ReadFailed =>
          /\ stdout = << >>
          /\ pc = "done"
          /\ status = 1
          /\ fs[args.files[idx]].kind = "error"
          /\ opened = SubSeq(args.files, 1, idx)
          /\ Len(results) = idx - 1
          /\ \A i \in 1..(idx - 1) : fs[args.files[i]].kind = "text"

C22_Witness ==
    /\ ReadFailed
    /\ pc = "done"
    /\ args.files = <<1, 2>>
    /\ fs[1] = [kind |-> "text", text |-> <<97, 32, 97>>]
    /\ fs[2] = [kind |-> "error", error |-> "FileNotFoundError"]
    /\ opened = <<1, 2>>
    /\ Len(results) = 1
    /\ results[1].stats.words = 2
    /\ stdout = << >>
    /\ status = 1

====
